---- MODULE Spec2Model ----
(***************************************************************************)
(* Model of the web-FPGA backend: the correlation step mergeJsonForD3      *)
(* (backend/src/mergeVerilogSdf.js) over a JavaScript heap with object     *)
(* identity, and the POST /api/upload handler of the express server.       *)
(***************************************************************************)
EXTENDS Integers, Sequences, FiniteSets, TLC

VARIABLES heap, verilogData, sdfData, finalJSON, pc,
          files, dirExists, req

mergeVars == <<heap, verilogData, sdfData, finalJSON, pc>>
uploadVars == <<files, dirExists, req>>
vars == <<heap, verilogData, sdfData, finalJSON, pc, files, dirExists, req>>

(***************************************************************************)
(* Bounds of the model.                                                    *)
(***************************************************************************)
MaxRecords == 2
MaxConns == 2
MaxRequests == 2

(***************************************************************************)
(* JavaScript values held in a field: undefined, a number, or a reference  *)
(* to a heap object (an array).                                            *)
(***************************************************************************)
Undefined == [t |-> "undefined"]
Num(n) == [t |-> "number", v |-> n]
Ref(a) == [t |-> "ref", a |-> a]
NULL == 0

(***************************************************************************)
(* Strings are sequences of one-character strings, so that trim() is       *)
(* computed and not assumed.                                               *)
(***************************************************************************)
WhiteSpace == {" ", "\t"}

RECURSIVE TrimStart(_)
TrimStart(s) ==
    IF s # <<>> /\ Head(s) \in WhiteSpace THEN TrimStart(Tail(s)) ELSE s

RECURSIVE TrimEnd(_)
TrimEnd(s) ==
    IF s # <<>> /\ s[Len(s)] \in WhiteSpace
    THEN TrimEnd(SubSeq(s, 1, Len(s) - 1))
    ELSE s

\* A plausible slip: only leading whitespace is removed.
TrimLeadingOnly(s) == TrimStart(s)

\* String.prototype.trim
Trim(s) == TrimEnd(TrimStart(s))

\* JavaScript truthiness of a string: the empty string is falsy.
Truthy(s) == Len(s) > 0

(***************************************************************************)
(* The heap: a sequence of objects, the address of an object is its index. *)
(* Allocation appends.                                                     *)
(***************************************************************************)
Alloc(h, obj) == [heap |-> Append(h, obj), ref |-> Len(h) + 1]

\* Objects allocated one after the other: the heap and their addresses.
Start(h) == [heap |-> h, refs |-> <<>>]
Push(acc, obj) ==
    [heap |-> Append(acc.heap, obj), refs |-> Append(acc.refs, Len(acc.heap) + 1)]
Link(acc, r) == [heap |-> r.heap, refs |-> Append(acc.refs, r.ref)]

(***************************************************************************)
(* Construction of the parsed inputs on the heap.  A NetlistModel is a     *)
(* root object whose modules hold instance objects, each holding its       *)
(* connection objects; a TimingModel is a root object whose instances are  *)
(* record objects, each holding its delays (a number, or an array object)  *)
(* and its timingChecks (an array object).                                 *)
(***************************************************************************)
RECURSIVE NewConnections(_, _, _)
NewConnections(acc, i, n) ==
    IF i > n THEN acc
    ELSE NewConnections(Push(acc, [kind |-> "connection", port |-> i, net |-> i,
                                   delay |-> Undefined]),
                        i + 1, n)

InstanceOf(cs, d) ==
    Alloc(cs.heap, [kind |-> "instance", name |-> d.name, type |-> d.type,
                    connections |-> cs.refs,
                    delays |-> Undefined, timingChecks |-> Undefined])

NewInstance(h, d) == InstanceOf(NewConnections(Start(h), 1, d.nconn), d)

RECURSIVE NewInstances(_, _)
NewInstances(acc, ds) ==
    IF ds = <<>> THEN acc
    ELSE NewInstances(Link(acc, NewInstance(acc.heap, Head(ds))), Tail(ds))

ModuleOf(is) == Alloc(is.heap, [kind |-> "module", instances |-> is.refs])

RECURSIVE NewModules(_, _)
NewModules(acc, ms) ==
    IF ms = <<>> THEN acc
    ELSE NewModules(Link(acc, ModuleOf(NewInstances(Start(acc.heap), Head(ms)))),
                    Tail(ms))

NetlistOf(mods) == Alloc(mods.heap, [kind |-> "netlist", modules |-> mods.refs])

NewNetlist(h, ms) == NetlistOf(NewModules(Start(h), ms))

\* The delays and the timingChecks of a record: refs[1], refs[2].
NewRecordFields(h, d) ==
    Push(IF d.delays.k = "number"
         THEN [heap |-> h, refs |-> <<Num(d.delays.v)>>]
         ELSE [heap |-> Append(h, [kind |-> "array", elems |-> d.delays.elems]),
               refs |-> <<Ref(Len(h) + 1)>>],
         [kind |-> "array", elems |-> d.timingChecks])

RecordOf(fs, d) ==
    Alloc(fs.heap, [kind |-> "record", instanceName |-> d.instanceName,
                    cellType |-> d.cellType, delays |-> fs.refs[1],
                    timingChecks |-> Ref(fs.refs[2])])

NewRecord(h, d) == RecordOf(NewRecordFields(h, d), d)

RECURSIVE NewRecords(_, _)
NewRecords(acc, ds) ==
    IF ds = <<>> THEN acc
    ELSE NewRecords(Link(acc, NewRecord(acc.heap, Head(ds))), Tail(ds))

TimingOf(rs) == Alloc(rs.heap, [kind |-> "timing", instances |-> rs.refs])

NewTiming(h, ds) == TimingOf(NewRecords(Start(h), ds))

(***************************************************************************)
(* JSON.parse(JSON.stringify(x)): a deep copy into fresh objects.  A field *)
(* holding undefined is dropped by stringify, a number is copied, an array *)
(* is copied element by element.                                           *)
(***************************************************************************)
\* The copy of one more field value, appended to acc.refs.
CloneValue(acc, v) ==
    IF v.t = "ref"
    THEN [heap |-> Append(acc.heap, [kind |-> "array",
                                     elems |-> acc.heap[v.a].elems]),
          refs |-> Append(acc.refs, Ref(Len(acc.heap) + 1))]
    ELSE [heap |-> acc.heap, refs |-> Append(acc.refs, v)]

RECURSIVE CloneConnections(_, _)
CloneConnections(acc, cs) ==
    IF cs = <<>> THEN acc
    ELSE CloneConnections(Push(acc, acc.heap[Head(cs)]), Tail(cs))

\* fs.refs: the copies of delays and of timingChecks.
CloneOfInstance(cs, fs, a) ==
    Alloc(fs.heap, [fs.heap[a] EXCEPT !.connections = cs.refs,
                                      !.delays = fs.refs[1],
                                      !.timingChecks = fs.refs[2]])

CloneInstanceFields(cs, h, a) ==
    CloneOfInstance(cs,
                    CloneValue(CloneValue(Start(cs.heap), h[a].delays),
                               h[a].timingChecks),
                    a)

CloneInstance(h, a) ==
    CloneInstanceFields(CloneConnections(Start(h), h[a].connections), h, a)

RECURSIVE CloneInstances(_, _)
CloneInstances(acc, is) ==
    IF is = <<>> THEN acc
    ELSE CloneInstances(Link(acc, CloneInstance(acc.heap, Head(is))), Tail(is))

CloneOfModule(is, a) == Alloc(is.heap, [is.heap[a] EXCEPT !.instances = is.refs])

RECURSIVE CloneModules(_, _)
CloneModules(acc, ms) ==
    IF ms = <<>> THEN acc
    ELSE CloneModules(
            Link(acc, CloneOfModule(
                         CloneInstances(Start(acc.heap),
                                        acc.heap[Head(ms)].instances),
                         Head(ms))),
            Tail(ms))

CloneOfNetlist(mods, a) ==
    Alloc(mods.heap, [mods.heap[a] EXCEPT !.modules = mods.refs])

\* A plausible slip: the "clone" is the original object itself.
CloneAliased(h, a) == [heap |-> h, ref |-> a]

\* let finalJSON = JSON.parse(JSON.stringify(verilogData))
Clone(h, a) == CloneOfNetlist(CloneModules(Start(h), h[a].modules), a)

(***************************************************************************)
(* mergeJsonForD3: the lookup map of timing records by normalized name.    *)
(***************************************************************************)
EmptyMap == [k \in {} |-> NULL]

\* A plausible slip: an entry already present is kept (first write wins).
MapSetIfAbsent(m, k, v) ==
    [x \in DOMAIN m \cup {k} |-> IF x \in DOMAIN m THEN m[x] ELSE v]

\* Map.prototype.set
MapSet(m, k, v) ==
    [x \in DOMAIN m \cup {k} |-> IF x = k THEN v ELSE m[x]]

\* A plausible slip: the lookup ignores the case of the letters.
Lower(s) == [i \in DOMAIN s |-> IF s[i] = "A" THEN "a" ELSE s[i]]

MapGetIgnoreCase(m, k) ==
    IF \E x \in DOMAIN m : Lower(x) = Lower(k)
    THEN m[CHOOSE x \in DOMAIN m : Lower(x) = Lower(k)]
    ELSE NULL

\* Map.prototype.get: the record's address, or NULL for undefined
MapGet(m, k) == IF k \in DOMAIN m THEN m[k] ELSE NULL

\* sdfData.instances.forEach(inst => { if (inst && inst.instanceName) ... })
RECURSIVE BuildMap(_, _, _)
BuildMap(h, rs, m) ==
    IF rs = <<>> THEN m
    ELSE LET inst == h[Head(rs)]
         IN BuildMap(h, Tail(rs),
                     IF Truthy(inst.instanceName)
                     THEN MapSet(m, Trim(inst.instanceName), Head(rs))
                     ELSE m)

sdfInstancesMap(h, s) == BuildMap(h, h[s].instances, EmptyMap)

(***************************************************************************)
(* mergeJsonForD3: what a matched record attaches.  Assignments of         *)
(* sdfInstance.delays / .timingChecks copy the field's value: for an       *)
(* array, the reference.                                                   *)
(***************************************************************************)
\* A plausible slip: the timing checks are not copied.
AttachDelaysOnly(instance, sdfInstance) ==
    [instance EXCEPT !.delays = sdfInstance.delays]

\* cellType === "DFF"
AttachDFF(instance, sdfInstance) ==
    [instance EXCEPT !.delays = sdfInstance.delays,
                     !.timingChecks = sdfInstance.timingChecks]

\* A plausible slip: the timing checks are copied as for a DFF.
AttachDelaysAndChecks(instance, sdfInstance) ==
    [instance EXCEPT !.delays = sdfInstance.delays,
                     !.timingChecks = sdfInstance.timingChecks]

\* cellType === "LUT_K"
AttachLUT(instance, sdfInstance) ==
    [instance EXCEPT !.delays = sdfInstance.delays]

IsArray(h, v) == v.t = "ref" /\ h[v.a].kind = "array"

\* A plausible slip: the last delay of the array is taken.
ConnDelayLast(h, sdfInstance) ==
    IF IsArray(h, sdfInstance.delays)
    THEN LET elems == h[sdfInstance.delays.a].elems
         IN IF Len(elems) > 0
            THEN [assign |-> TRUE, val |-> Num(elems[Len(elems)].delay)]
            ELSE [assign |-> FALSE]
    ELSE IF sdfInstance.delays.t = "number"
    THEN [assign |-> TRUE, val |-> sdfInstance.delays]
    ELSE [assign |-> FALSE]

\* The value the interconnect branch assigns to conn.delay, if it assigns.
ConnDelay(h, sdfInstance) ==
    IF IsArray(h, sdfInstance.delays)
    THEN LET elems == h[sdfInstance.delays.a].elems
         IN IF Len(elems) > 0
            THEN [assign |-> TRUE, val |-> Num(elems[1].delay)]
            ELSE [assign |-> FALSE]
    ELSE IF sdfInstance.delays.t = "number"
    THEN [assign |-> TRUE, val |-> sdfInstance.delays]
    ELSE [assign |-> FALSE]

\* instance.connections.forEach(conn => { ... })
RECURSIVE AnnotateConnections(_, _, _)
AnnotateConnections(h, cs, sdfInstance) ==
    IF cs = <<>> THEN h
    ELSE LET d == ConnDelay(h, sdfInstance)
             h1 == IF d.assign
                   THEN [h EXCEPT ![Head(cs)].delay = d.val]
                   ELSE h
         IN AnnotateConnections(h1, Tail(cs), sdfInstance)

\* A plausible slip: the interconnect instance gets the record's delays too.
AttachInterconnectAndDelays(h, a, sdfInstance) ==
    AnnotateConnections([h EXCEPT ![a].delays = sdfInstance.delays],
                        h[a].connections, sdfInstance)

\* instance.type === "fpga_interconnect" && instance.connections
AttachInterconnect(h, a, sdfInstance) ==
    AnnotateConnections(h, h[a].connections, sdfInstance)

\* The body of module.instances.forEach(instance => { ... })
AnnotateInstance(h, a, map) ==
    IF ~Truthy(h[a].name) THEN h
    ELSE LET normalizedName == Trim(h[a].name)
             found == MapGet(map, normalizedName)
         IN IF found = NULL THEN h
            ELSE LET sdfInstance == h[found]
                 IN IF sdfInstance.cellType = "DFF"
                    THEN [h EXCEPT ![a] = AttachDFF(h[a], sdfInstance)]
                    ELSE IF sdfInstance.cellType = "LUT_K"
                    THEN [h EXCEPT ![a] = AttachLUT(h[a], sdfInstance)]
                    ELSE IF h[a].type = "fpga_interconnect"
                    THEN AttachInterconnect(h, a, sdfInstance)
                    ELSE h

RECURSIVE AnnotateInstances(_, _, _)
AnnotateInstances(h, is, map) ==
    IF is = <<>> THEN h
    ELSE AnnotateInstances(AnnotateInstance(h, Head(is), map), Tail(is), map)

\* Object.values(finalJSON.modules).forEach(module => { ... })
RECURSIVE AnnotateModules(_, _, _)
AnnotateModules(h, ms, map) ==
    IF ms = <<>> THEN h
    ELSE AnnotateModules(AnnotateInstances(h, h[Head(ms)].instances, map),
                         Tail(ms), map)

\* mergeJsonForD3(verilogData, sdfData): the heap after the call and the
\* address of the returned finalJSON.
Annotated(c, s) ==
    [heap |-> AnnotateModules(c.heap, c.heap[c.ref].modules,
                              sdfInstancesMap(c.heap, s)),
     ref |-> c.ref]

mergeJsonForD3(h, v, s) == Annotated(Clone(h, v), s)

(***************************************************************************)
(* The parsed inputs the model draws from.  Names are possibly padded with *)
(* whitespace, differ by case, are blank or empty; an instance is an       *)
(* interconnect or a cell; a record's delays is a bare number, an empty    *)
(* sequence or a sequence of path delays.  Two families of inputs are      *)
(* drawn: one varies cell types and delay shapes over few names, the       *)
(* other varies names over few shapes.                                     *)
(***************************************************************************)
InstNames == { <<>>, <<" ">>, <<"a">>, <<" ", "a">> }
RecNames == { <<>>, <<" ">>, <<"a">>, <<"\t", "a", " ">>, <<"A">> }
InstTypes == { "fpga_interconnect", "DFF" }
CellTypes == { "DFF", "LUT_K", "fpga_interconnect" }

Check1 == [check |-> "setup", value |-> 1]
Check2 == [check |-> "hold", value |-> 2]

Scalar == [delays |-> [k |-> "number", v |-> 7], timingChecks |-> <<Check1>>]
NoPaths == [delays |-> [k |-> "array", elems |-> <<>>], timingChecks |-> <<>>]
Paths ==
    [delays |-> [k |-> "array", elems |-> <<[delay |-> 5], [delay |-> 9]>>],
     timingChecks |-> <<Check1, Check2>>]

InstDesc(n, ty, k) == [name |-> n, type |-> ty, nconn |-> k]

RecDesc(n, ct, p) ==
    [instanceName |-> n, cellType |-> ct, delays |-> p.delays,
     timingChecks |-> p.timingChecks]

SeqsUpTo(S, n) == UNION { [1..k -> S] : k \in 0..n }

\* Family 1: one instance "a"; records of every cell type and delay shape.
ShapeNetlists ==
    { << <<InstDesc(<<"a">>, ty, k)>> >> : ty \in InstTypes, k \in 0..MaxConns }

ShapeRecords ==
    { RecDesc(n, ct, p) :
        n \in { <<"a">>, <<"A">> }, ct \in CellTypes, p \in {Scalar, NoPaths, Paths} }

\* Family 2: instances and records of every name; a netlist of two modules.
NameNetlists ==
    { << <<InstDesc(n, ty, MaxConns)>> >> : n \in InstNames, ty \in InstTypes }
    \cup { << <<InstDesc(<<"a">>, "fpga_interconnect", MaxConns),
                InstDesc(<<"A">>, "DFF", 1)>>,
              <<InstDesc(<<" ", "a">>, "DFF", 0)>> >> }

NameRecords ==
    { RecDesc(n, "DFF", Paths) : n \in RecNames }
    \cup { RecDesc(n, "fpga_interconnect", Scalar) : n \in RecNames }

Inputs ==
    (ShapeNetlists \X SeqsUpTo(ShapeRecords, MaxRecords))
    \cup (NameNetlists \X SeqsUpTo(NameRecords, MaxRecords))

(***************************************************************************)
(* State of the upload handler: the files of parsed_files/ by project      *)
(* name, and each request's position in the handler.  Idle in the merge    *)
(* specification.                                                          *)
(***************************************************************************)
Projects == { "p1", "p2" }
Requests == 1..MaxRequests
NoFile == 0

IdleRequest == [pc |-> "idle", projectName |-> "", status |-> 0, body |-> ""]

UploadIdle ==
    /\ files = [p \in Projects |-> NoFile]
    /\ dirExists = FALSE
    /\ req = [r \in Requests |-> IdleRequest]

(***************************************************************************)
(* The merge specification: the two parsed models are on the heap, then    *)
(* mergeJsonForD3 is called once.                                          *)
(***************************************************************************)
ParsedBoth(n, t) ==
    /\ heap = t.heap
    /\ verilogData = n.ref
    /\ sdfData = t.ref

Parsed(n, td) == ParsedBoth(n, NewTiming(n.heap, td))

Init ==
    /\ \E in \in Inputs : Parsed(NewNetlist(<<>>, in[1]), in[2])
    /\ finalJSON = NULL
    /\ pc = "parsed"
    /\ UploadIdle

Returned(r) ==
    /\ heap' = r.heap
    /\ finalJSON' = r.ref

Merge ==
    /\ pc = "parsed"
    /\ Returned(mergeJsonForD3(heap, verilogData, sdfData))
    /\ pc' = "merged"
    /\ UNCHANGED <<verilogData, sdfData>>
    /\ UNCHANGED uploadVars

Next == Merge

Spec == Init /\ [][Next]_vars

(***************************************************************************)
(* Structural values: what a model looks like regardless of the addresses  *)
(* of its objects.                                                         *)
(***************************************************************************)
Range(f) == { f[i] : i \in DOMAIN f }

DeepValue(h, v) ==
    IF v.t = "ref" THEN [t |-> "array", elems |-> h[v.a].elems] ELSE v

ConnValue(h, a) == [port |-> h[a].port, net |-> h[a].net, delay |-> h[a].delay]

InstValue(h, a) ==
    [name |-> h[a].name, type |-> h[a].type,
     connections |-> [i \in DOMAIN h[a].connections |->
                         ConnValue(h, h[a].connections[i])],
     delays |-> DeepValue(h, h[a].delays),
     timingChecks |-> DeepValue(h, h[a].timingChecks)]

ModuleValue(h, a) ==
    [i \in DOMAIN h[a].instances |-> InstValue(h, h[a].instances[i])]

NetlistValue(h, a) ==
    [i \in DOMAIN h[a].modules |-> ModuleValue(h, h[a].modules[i])]

RecordValue(h, a) ==
    [instanceName |-> h[a].instanceName, cellType |-> h[a].cellType,
     delays |-> DeepValue(h, h[a].delays),
     timingChecks |-> DeepValue(h, h[a].timingChecks)]

TimingValue(h, a) ==
    [i \in DOMAIN h[a].instances |-> RecordValue(h, h[a].instances[i])]

\* The addresses of the objects reachable from a field value.
ValueObjects(v) == IF v.t = "ref" THEN {v.a} ELSE {}

InstObjects(h, a) ==
    {a} \cup Range(h[a].connections)
        \cup ValueObjects(h[a].delays) \cup ValueObjects(h[a].timingChecks)

ModuleObjects(h, a) ==
    {a} \cup UNION { InstObjects(h, i) : i \in Range(h[a].instances) }

NetlistObjects(h, a) ==
    {a} \cup UNION { ModuleObjects(h, m) : m \in Range(h[a].modules) }

RecordObjects(h, a) ==
    {a} \cup ValueObjects(h[a].delays) \cup ValueObjects(h[a].timingChecks)

TimingObjects(h, a) ==
    {a} \cup UNION { RecordObjects(h, r) : r \in Range(h[a].instances) }

(***************************************************************************)
(* Vocabulary of the properties.  Normalization is stated here on its own, *)
(* by positions, independently of Trim.  A name is a non-empty string: an  *)
(* instance or a record whose name is empty has no name.                   *)
(***************************************************************************)
Solid(s) == { i \in 1..Len(s) : s[i] \notin WhiteSpace }

Normalized(s) ==
    IF Solid(s) = {} THEN <<>>
    ELSE SubSeq(s, CHOOSE i \in Solid(s) : \A j \in Solid(s) : i <= j,
                   CHOOSE i \in Solid(s) : \A j \in Solid(s) : i >= j)

Merged == pc = "merged"

\* The positions (module, instance) of the netlist.
Positions ==
    UNION { { <<m, i>> : i \in DOMAIN heap[heap[verilogData].modules[m]].instances } :
            m \in DOMAIN heap[verilogData].modules }

InAddr(p) == heap[heap[verilogData].modules[p[1]]].instances[p[2]]
OutAddr(p) == heap[heap[finalJSON].modules[p[1]]].instances[p[2]]
InInst(p) == heap[InAddr(p)]
OutInst(p) == heap[OutAddr(p)]
OutConns(p) == { heap[c] : c \in Range(OutInst(p).connections) }

RecIdx == DOMAIN heap[sdfData].instances
Rec(i) == heap[heap[sdfData].instances[i]]

\* The records whose name is the instance's name, after normalization.
Matches(p) ==
    { i \in RecIdx : /\ Rec(i).instanceName # <<>>
                     /\ Normalized(Rec(i).instanceName) = Normalized(InInst(p).name) }

Matched(p) == InInst(p).name # <<>> /\ Matches(p) # {}

\* The last matching record in source order.
Governing(p) == Rec(CHOOSE i \in Matches(p) : \A j \in Matches(p) : j <= i)

IsAnnotated(p) ==
    \/ OutInst(p).delays # Undefined
    \/ OutInst(p).timingChecks # Undefined
    \/ \E c \in OutConns(p) : c.delay # Undefined

(***************************************************************************)
(* C5: after the merge, an instance whose normalized name is the           *)
(* normalized instanceName of no timing record has no delays, no           *)
(* timingChecks, and no connection of it has a delay.                      *)
(***************************************************************************)
C5_UnmatchedAnnotationFree ==
    Merged =>
      \A p \in Positions :
        (\A i \in RecIdx :
            Normalized(Rec(i).instanceName) # Normalized(InInst(p).name))
        => ~IsAnnotated(p)

\* A named instance, every record named otherwise, has been merged.
C5_Witness ==
    /\ Merged
    /\ \E p \in Positions :
          /\ InInst(p).name # <<>>
          /\ RecIdx # {}
          /\ \A i \in RecIdx :
                /\ Rec(i).cellType = "DFF"
                /\ Rec(i).instanceName # <<>>
                /\ Normalized(Rec(i).instanceName) # Normalized(InInst(p).name)

(***************************************************************************)
(* C8: after the merge, a matched instance whose (last matching) record    *)
(* has cellType DFF carries that record's delays and timingChecks, entry   *)
(* for entry.                                                              *)
(***************************************************************************)
C8_SequentialAttachment ==
    Merged =>
      \A p \in Positions :
        (Matched(p) /\ Governing(p).cellType = "DFF") =>
          /\ DeepValue(heap, OutInst(p).delays)
               = DeepValue(heap, Governing(p).delays)
          /\ DeepValue(heap, OutInst(p).timingChecks)
               = DeepValue(heap, Governing(p).timingChecks)

\* A DFF record with path delays and two timing checks has been attached.
C8_Witness ==
    /\ Merged
    /\ \E p \in Positions :
          /\ Matched(p)
          /\ Governing(p).cellType = "DFF"
          /\ DeepValue(heap, Governing(p).timingChecks).elems = <<Check1, Check2>>
          /\ DeepValue(heap, OutInst(p).timingChecks).elems = <<Check1, Check2>>

(***************************************************************************)
(* C9: for a matched instance that is not an interconnect, the record's    *)
(* cellType alone decides: timingChecks only for DFF, delays (the          *)
(* record's) for LUT_K without its timingChecks, nothing for any other     *)
(* cellType; and no connection gets a delay in any of these cases.         *)
(***************************************************************************)
C9_CellTypeDecides ==
    Merged =>
      \A p \in Positions :
        (Matched(p) /\ InInst(p).type # "fpga_interconnect") =>
          /\ OutInst(p).timingChecks # Undefined => Governing(p).cellType = "DFF"
          /\ Governing(p).cellType = "LUT_K" =>
                /\ DeepValue(heap, OutInst(p).delays)
                     = DeepValue(heap, Governing(p).delays)
                /\ OutInst(p).timingChecks = Undefined
          /\ Governing(p).cellType \notin {"DFF", "LUT_K"} =>
                /\ OutInst(p).delays = Undefined
                /\ OutInst(p).timingChecks = Undefined
          /\ \A c \in OutConns(p) : c.delay = Undefined

\* A LUT_K record that has timing checks matched a cell with connections.
C9_Witness ==
    /\ Merged
    /\ \E p \in Positions :
          /\ Matched(p)
          /\ InInst(p).type # "fpga_interconnect"
          /\ OutConns(p) # {}
          /\ Governing(p).cellType = "LUT_K"
          /\ DeepValue(heap, Governing(p).timingChecks).elems # <<>>
          /\ OutInst(p).delays # Undefined

(***************************************************************************)
(* C1: the call mergeJsonForD3(n, t) leaves n and t structurally as they   *)
(* were: every module, instance, connection, record, delays and            *)
(* timingChecks value is the same after the call as before it.             *)
(***************************************************************************)
C1_InputsNotMutated ==
    [][ (pc = "parsed" /\ pc' = "merged") =>
          /\ NetlistValue(heap', verilogData') = NetlistValue(heap, verilogData)
          /\ TimingValue(heap', sdfData') = TimingValue(heap, sdfData) ]_vars

\* The merge has run and an instance matched and received annotations.
C1_Witness ==
    /\ Merged
    /\ \E p \in Positions : Matched(p) /\ IsAnnotated(p)

(***************************************************************************)
(* C2: the returned AnnotatedNetlist shares no object or array with the    *)
(* input NetlistModel nor with the input TimingModel.                      *)
(***************************************************************************)
C2_ResultSharesNothing ==
    Merged =>
      NetlistObjects(heap, finalJSON)
        \cap (NetlistObjects(heap, verilogData) \cup TimingObjects(heap, sdfData))
      = {}

(***************************************************************************)
(* C3: correlation is by trimmed, otherwise exact and case-sensitive name. *)
(* Replacing the instanceName s of any record by s surrounded with         *)
(* whitespace gives the same merge result; and an instance is annotated    *)
(* only if some record's name equals its name after normalization.         *)
(***************************************************************************)
Padded(s, w) == <<w, w>> \o s \o <<w, w>>

\* The merge result (as a value) had record i been named nm.
ResultWithName(i, nm) ==
    LET h == [heap EXCEPT ![heap[sdfData].instances[i]].instanceName = nm]
        r == mergeJsonForD3(h, verilogData, sdfData)
    IN NetlistValue(r.heap, r.ref)

C3_TrimmedExactMatch ==
    Merged =>
      /\ \A i \in RecIdx : \A w \in WhiteSpace :
            Rec(i).instanceName # <<>> =>
              ResultWithName(i, Padded(Rec(i).instanceName, w))
                = NetlistValue(heap, finalJSON)
      /\ \A p \in Positions : IsAnnotated(p) => Matched(p)

\* A record named as the instance, up to padding, has annotated it, while
\* another record differs from the instance's name by case only.
C3_Witness ==
    /\ Merged
    /\ \E p \in Positions :
          /\ IsAnnotated(p)
          /\ \E i \in Matches(p) : Rec(i).instanceName # InInst(p).name
          /\ \E i \in RecIdx \ Matches(p) : Rec(i).instanceName = <<"A">>

(***************************************************************************)
(* C4: with several records of one normalized name, the last in source     *)
(* order governs: the merge result is the one obtained from the            *)
(* TimingModel without the earlier duplicates.                             *)
(***************************************************************************)
Superseded(i) ==
    /\ Rec(i).instanceName # <<>>
    /\ \E j \in RecIdx :
          /\ j > i
          /\ Rec(j).instanceName # <<>>
          /\ Normalized(Rec(j).instanceName) = Normalized(Rec(i).instanceName)

RECURSIVE Keep(_, _)
Keep(rs, i) ==
    IF i > Len(rs) THEN <<>>
    ELSE (IF Superseded(i) THEN <<>> ELSE <<rs[i]>>) \o Keep(rs, i + 1)

ResultWithoutSuperseded ==
    LET h == [heap EXCEPT ![sdfData].instances = Keep(heap[sdfData].instances, 1)]
        r == mergeJsonForD3(h, verilogData, sdfData)
    IN NetlistValue(r.heap, r.ref)

C4_LastWriteWins ==
    Merged => NetlistValue(heap, finalJSON) = ResultWithoutSuperseded

\* Two records of the instance's name, with different data, have been merged.
C4_Witness ==
    /\ Merged
    /\ \E p \in Positions :
          /\ IsAnnotated(p)
          /\ \E i, j \in Matches(p) :
                /\ i < j
                /\ RecordValue(heap, heap[sdfData].instances[i]).delays
                     # RecordValue(heap, heap[sdfData].instances[j]).delays
                /\ Rec(i).cellType # Rec(j).cellType

(***************************************************************************)
(* Interconnect instances.                                                 *)
(***************************************************************************)
Interconnect(p) == Matched(p) /\ InInst(p).type = "fpga_interconnect"

ByCellType(p) == Governing(p).cellType \in {"DFF", "LUT_K"}

\* The record's delays, as the claim reads them.
GoverningDelays(p) == DeepValue(heap, Governing(p).delays)

FanOut(p) ==
    \A c \in OutConns(p) :
      /\ (GoverningDelays(p).t = "array" /\ GoverningDelays(p).elems # <<>>)
            => c.delay = Num(GoverningDelays(p).elems[1].delay)
      /\ GoverningDelays(p).t = "number" => c.delay = GoverningDelays(p)
      /\ (GoverningDelays(p).t = "array" /\ GoverningDelays(p).elems = <<>>)
            => c.delay = Undefined

NoInstanceLevel(p) ==
    /\ OutInst(p).delays = Undefined
    /\ OutInst(p).timingChecks = Undefined

ConnectionsIsAnnotated(p) ==
    (GoverningDelays(p).t = "number"
       \/ (GoverningDelays(p).t = "array" /\ GoverningDelays(p).elems # <<>>))
    => \A c \in OutConns(p) : c.delay # Undefined

(***************************************************************************)
(* C6 as stated: a matched interconnect instance gets no instance-level    *)
(* delays and no timingChecks, and its connections are annotated instead,  *)
(* whatever the record's cellType is (DFF and LUT_K included).             *)
(***************************************************************************)
C6_InterconnectByOwnType ==
    Merged =>
      \A p \in Positions :
        Interconnect(p) => NoInstanceLevel(p) /\ ConnectionsIsAnnotated(p)

(***************************************************************************)
(* C6 as amended: a matched interconnect instance whose record's cellType  *)
(* is neither DFF nor LUT_K gets no instance-level delays and no           *)
(* timingChecks, and its connections are annotated instead.                *)
(***************************************************************************)
C6_InterconnectUnlessCellType ==
    Merged =>
      \A p \in Positions :
        (Interconnect(p) /\ ~ByCellType(p))
        => NoInstanceLevel(p) /\ ConnectionsIsAnnotated(p)

\* An interconnect with connections matched a record of another cellType
\* that carries delays.
C6_Witness ==
    /\ Merged
    /\ \E p \in Positions :
          /\ Interconnect(p)
          /\ ~ByCellType(p)
          /\ GoverningDelays(p).t = "number"
          /\ \E c \in OutConns(p) : c.delay # Undefined

(***************************************************************************)
(* C7 as stated: every connection of a matched interconnect instance       *)
(* carries the first entry's delay of the record's non-empty delays        *)
(* sequence, or the bare number, and no delay when the sequence is empty.  *)
(***************************************************************************)
C7_FanOut ==
    Merged => \A p \in Positions : Interconnect(p) => FanOut(p)

(***************************************************************************)
(* C7 as amended: the same, for a matched interconnect instance whose      *)
(* record's cellType is neither DFF nor LUT_K.                             *)
(***************************************************************************)
C7_FanOutUnlessCellType ==
    Merged =>
      \A p \in Positions : (Interconnect(p) /\ ~ByCellType(p)) => FanOut(p)

\* An interconnect with all its connections matched a record holding two
\* path delays, and the first was fanned out.
C7_Witness ==
    /\ Merged
    /\ \E p \in Positions :
          /\ Interconnect(p)
          /\ ~ByCellType(p)
          /\ Cardinality(OutConns(p)) = MaxConns
          /\ GoverningDelays(p).t = "array"
          /\ Len(GoverningDelays(p).elems) > 1
          /\ \A c \in OutConns(p) : c.delay = Num(5)

(***************************************************************************)
(* The upload handler, app.post('/api/upload').  The handler is an async   *)
(* function: it runs to its next await, and other requests run while the   *)
(* filesystem call is pending.  Each action below is the completion of the *)
(* pending filesystem call followed by the handler's code up to its next   *)
(* await or its response.  The content a request saves is its own merge    *)
(* result, identified here by the request.                                 *)
(***************************************************************************)
Respond(r, status, body) ==
    req' = [req EXCEPT ![r] = [@ EXCEPT !.pc = "done", !.status = status,
                                        !.body = body]]

Goto(r, label) == req' = [req EXCEPT ![r].pc = label]

\* What the synchronous part of the handler finds in the request.
Rejections ==
    { [status |-> 400, body |-> "Invalid file(s) format."],
      [status |-> 400, body |-> "Both SDF and Verilog files must be uploaded."],
      [status |-> 400, body |-> "One or both uploaded files are empty."],
      [status |-> 500, body |-> "Error parsing SDF file."],
      [status |-> 500, body |-> "Error parsing Verilog file."],
      [status |-> 500, body |-> "Error merging files."],
      [status |-> 400, body |-> "Project name is required."] }

\* The request arrives; validation, parsing and merging run synchronously.
Reject(r) ==
    /\ req[r].pc = "idle"
    /\ \E e \in Rejections : Respond(r, e.status, e.body)
    /\ UNCHANGED <<files, dirExists>>
    /\ UNCHANGED mergeVars

\* ... and with a project name, fs.access(parsed_files) is awaited.
Accept(r) ==
    /\ req[r].pc = "idle"
    /\ \E name \in Projects :
          req' = [req EXCEPT ![r] = [@ EXCEPT !.pc = "accessDir",
                                              !.projectName = name]]
    /\ UNCHANGED <<files, dirExists>>
    /\ UNCHANGED mergeVars

\* fs.access(parsed_files) resolves: fs.access(projectJSON_Path) is awaited.
AccessDirFound(r) ==
    /\ req[r].pc = "accessDir"
    /\ dirExists
    /\ Goto(r, "accessFile")
    /\ UNCHANGED <<files, dirExists>>
    /\ UNCHANGED mergeVars

\* fs.access(parsed_files) rejects: fs.mkdir(parsed_files) is awaited.
AccessDirMissing(r) ==
    /\ req[r].pc = "accessDir"
    /\ ~dirExists
    /\ Goto(r, "mkdir")
    /\ UNCHANGED <<files, dirExists>>
    /\ UNCHANGED mergeVars

\* fs.mkdir resolves: fs.access(projectJSON_Path) is awaited.
MkdirDone(r) ==
    /\ req[r].pc = "mkdir"
    /\ ~dirExists
    /\ dirExists' = TRUE
    /\ Goto(r, "accessFile")
    /\ UNCHANGED files
    /\ UNCHANGED mergeVars

\* fs.mkdir rejects (the directory exists by now).
MkdirFails(r) ==
    /\ req[r].pc = "mkdir"
    /\ dirExists
    /\ Respond(r, 500, "Error creating directory.")
    /\ UNCHANGED <<files, dirExists>>
    /\ UNCHANGED mergeVars

\* fs.access(projectJSON_Path) resolves: the project exists.
AccessFileFound(r) ==
    /\ req[r].pc = "accessFile"
    /\ files[req[r].projectName] # NoFile
    /\ Respond(r, 400, "The project already exists.")
    /\ UNCHANGED <<files, dirExists>>
    /\ UNCHANGED mergeVars

\* fs.access(projectJSON_Path) rejects: fs.writeFile is awaited.
AccessFileMissing(r) ==
    /\ req[r].pc = "accessFile"
    /\ files[req[r].projectName] = NoFile
    /\ Goto(r, "writeFile")
    /\ UNCHANGED <<files, dirExists>>
    /\ UNCHANGED mergeVars

\* fs.writeFile resolves: the file holds this request's JSON, whatever it
\* held before.
WriteFileDone(r) ==
    /\ req[r].pc = "writeFile"
    /\ files' = [files EXCEPT ![req[r].projectName] = r]
    /\ Respond(r, 200, "Files uploaded successfully.")
    /\ UNCHANGED dirExists
    /\ UNCHANGED mergeVars

\* fs.writeFile rejects (the file could not be opened).
WriteFileFails(r) ==
    /\ req[r].pc = "writeFile"
    /\ Respond(r, 500, "Error saving parsed JSON files.")
    /\ UNCHANGED <<files, dirExists>>
    /\ UNCHANGED mergeVars

InitUpload ==
    /\ heap = <<>>
    /\ verilogData = NULL
    /\ sdfData = NULL
    /\ finalJSON = NULL
    /\ pc = "serving"
    /\ files = [p \in Projects |-> NoFile]
    /\ dirExists \in BOOLEAN
    /\ req = [r \in Requests |-> IdleRequest]

NextUpload ==
    \E r \in Requests :
       \/ Reject(r)
       \/ Accept(r)
       \/ AccessDirFound(r)
       \/ AccessDirMissing(r)
       \/ MkdirDone(r)
       \/ MkdirFails(r)
       \/ AccessFileFound(r)
       \/ AccessFileMissing(r)
       \/ WriteFileDone(r)
       \/ WriteFileFails(r)

SpecUpload == InitUpload /\ [][NextUpload]_vars

(***************************************************************************)
(* C10: an upload never overwrites a stored project: once the file of a    *)
(* project exists no later upload replaces its content, and at most one    *)
(* request per project name is answered 200 'Files uploaded                *)
(* successfully.'.                                                         *)
(***************************************************************************)
Succeeded(r) == req[r].pc = "done" /\ req[r].status = 200

C10_UploadNeverOverwrites ==
    /\ [][ \A p \in Projects : files[p] # NoFile => files'[p] = files[p] ]_vars
    /\ [](\A r1, r2 \in Requests :
            (Succeeded(r1) /\ Succeeded(r2)
               /\ req[r1].projectName = req[r2].projectName) => r1 = r2)

====
